---- MODULE Spec2Model ----
(***************************************************************************)
(* Model of the Tableau_API backend: the CSV -> XLSX transformation of     *)
(* DataProcessor (data_processing.py) and the status-code handling of the  *)
(* upload client (api_integration.py).                                     *)
(*                                                                         *)
(* A table cell is a record: NaN (pandas missing marker), a text cell      *)
(* StrCell(s) or a numeric cell NumCell(v).  The text of a Measure Values  *)
(* cell is a sequence of characters, so that the comma stripping and the   *)
(* numeric parse are computed character by character.                      *)
(***************************************************************************)
EXTENDS Integers, Sequences, FiniteSets, TLC

VARIABLES
    csv_exists,     \* the file at csv_path exists and is readable
    csv_columns,    \* header of the CSV file: set of column names
    csv_rows,       \* data rows of the CSV file, in file order
    csv_chunk,      \* row count of the parser's first chunk (0: one chunk)
    xlsx_writable,  \* the file at xlsx_path can be written
    pc,             \* position inside transform_csv_to_xlsx
    df,             \* the loaded long table (local df)
    df_pivot,       \* the wide table (local df_pivot)
    printed,        \* messages written by print(), in order
    xlsx,           \* content of the file at xlsx_path
    err,            \* exception that left transform_csv_to_xlsx
    status_code,    \* response.status_code given to _handle_response
    response_body,  \* body of the HTTP response
    file_path,      \* file_path given to _handle_response
    result,         \* outcome of _handle_response
    self_expected_columns,     \* DataProcessor.expected_columns
    self_measure_names_order,  \* DataProcessor.measure_names_order
    run_no,         \* number of the call of transform_csv_to_xlsx on the instance
    first_run,      \* what the first call left behind
    up_pc,          \* position inside CombustivelAPIUploader's method
    up_call,        \* the uploader method called
    session,        \* state of the client's requests.Session
    upload_path,    \* path given to upload_file, a sequence of characters
    upload_file_on_disk,  \* the file at upload_path: existence and size
    requests_sent,  \* number of HTTP requests sent by the session
    up_result,      \* what the uploader method returned or raised
    auth_server,    \* TableauAuthenticator.server
    auth_signed_in, \* the server object of auth_server is signed in
    auth_log,       \* calls made on the authenticator, with their outcomes
    os_environ,     \* the process environment read by Config
    config,         \* TableauAPIApp.config
    app_pc,         \* position inside main()
    api_uploader,   \* TableauAPIApp.api_uploader
    main_steps,     \* the list main_steps of run()
    step_i,         \* index in main_steps of the step of the for loop
    steps_log,      \* the steps started so far, in order
    app_err         \* exception that left TableauAPIApp() or run()

transformVars == <<csv_exists, csv_columns, csv_rows, csv_chunk,
                   xlsx_writable, pc, df, df_pivot, printed, xlsx, err>>

uploadVars == <<status_code, response_body, file_path, result>>

instanceVars == <<self_expected_columns, self_measure_names_order,
                  run_no, first_run>>

clientVars == <<up_pc, up_call, session, upload_path, upload_file_on_disk,
                requests_sent, up_result>>

authVars == <<auth_server, auth_signed_in, auth_log>>

appVars == <<os_environ, config, app_pc, api_uploader, main_steps, step_i,
             steps_log, app_err>>

vars == <<transformVars, uploadVars, instanceVars, clientVars, authVars,
          appVars>>

(***************************************************************************)
(* Bounds of the model.                                                    *)
(***************************************************************************)
MaxRows == 2

(***************************************************************************)
(* Program constants.                                                      *)
(***************************************************************************)
expected_columns ==
    <<"Cidades", "Combustíveis", "Measure Names", "Origens",
      "Medição", "Turno + Data", "Measure Values">>

measure_names_order ==
    <<"Estq. Dia. Ant. Utl. Medç.",
      "Estq. Ult. Medç",
      "Venda Utl. Medç",
      "Compra Dia Ult. Medç",
      "Verificação",
      "Capac.",
      "Venda Anterior",
      "Vol. Atual",
      "Carga",
      "Vendas",
      "Estoque",
      "Giro Estoque Hoje",
      "Percent. Cap. Hoje",
      "Media",
      "Estq. Final",
      "Giro Estq Final ",
      "Percent. Cap. Final Hoje",
      "Sugest.",
      "Média",
      "Estoque ",
      "Giro Estq",
      "Percent. Cap.",
      "Sugest. ">>

\* index= of pivot_table
pivot_index == <<"Cidades", "Origens", "Turno + Data", "Combustíveis", "Medição">>

\* leading part of columns_order in _reorder_columns
leading_columns == <<"Cidades", "Origens", "Turno + Data", "Combustíveis", "Medição">>

\* non_index_columns of _process_numeric_values
non_index_columns == <<"Cidades", "Origens", "Turno + Data", "Combustíveis", "Medição">>

Range(s) == {s[i] : i \in 1..Len(s)}

(***************************************************************************)
(* Cells.                                                                  *)
(***************************************************************************)
NaN == [t |-> "nan"]
StrCell(s) == [t |-> "str", s |-> s]
NumCell(v) == [t |-> "num", v |-> v]
IsNaN(c) == c.t = "nan"
IsStr(c) == c.t = "str"
IsNum(c) == c.t = "num"

(***************************************************************************)
(* Text of a numeric cell: characters, digits, parse.                      *)
(***************************************************************************)
Digits == {"0", "1", "2", "3", "4", "5", "6", "7", "8", "9"}

DigitVal(ch) ==
    CASE ch = "0" -> 0 [] ch = "1" -> 1 [] ch = "2" -> 2 [] ch = "3" -> 3
      [] ch = "4" -> 4 [] ch = "5" -> 5 [] ch = "6" -> 6 [] ch = "7" -> 7
      [] ch = "8" -> 8 [] ch = "9" -> 9

\* the text is a decimal number: one or more digits
IsDecimal(s) == Len(s) > 0 /\ \A i \in 1..Len(s) : s[i] \in Digits

RECURSIVE DecimalValue(_)
DecimalValue(s) ==
    IF Len(s) = 0 THEN 0
    ELSE 10 * DecimalValue(SubSeq(s, 1, Len(s) - 1)) + DigitVal(s[Len(s)])

\* str.replace(",", "", regex=False) on one text
StrReplaceComma(s) == SelectSeq(s, LAMBDA ch : ch # ",")

\* pd.to_numeric(..., errors="coerce") on one cell
ToNumeric(c) ==
    IF IsNum(c) THEN c
    ELSE IF IsStr(c) /\ IsDecimal(c.s) THEN NumCell(DecimalValue(c.s))
    ELSE NaN

\* Series.str.replace on one cell of an object column: a cell that is not
\* a str gives NaN
StrReplaceCell(c) == IF IsStr(c) THEN StrCell(StrReplaceComma(c.s)) ELSE NaN

(***************************************************************************)
(* The CSV files of the model.  Key fields and measure names are labels;   *)
(* the empty label "" is an empty field.                                   *)
(***************************************************************************)
Key(cidade, combustivel) ==
    [c \in Range(pivot_index) |->
        CASE c = "Cidades" -> cidade
          [] c = "Origens" -> "O1"
          [] c = "Turno + Data" -> "T1-01/01"
          [] c = "Combustíveis" -> combustivel
          [] c = "Medição" -> "M1"]

KeyPool == {Key("CityA", "Gas"), Key("CityA", "Diesel"), Key("", "Gas")}

\* rows of a pivot are sorted by key: "Diesel" < "Gas"
KeyOrder == <<Key("CityA", "Diesel"), Key("CityA", "Gas")>>

NamePool == {"Vendas", "Estoque", "Desconhecida"}

\* measure names in the order sort_index(axis=1) gives them
NameOrder ==
    <<"Capac.", "Carga", "Compra Dia Ult. Medç", "Desconhecida", "Estoque",
      "Estoque ", "Estq. Dia. Ant. Utl. Medç.", "Estq. Final",
      "Estq. Ult. Medç", "Giro Estoque Hoje", "Giro Estq", "Giro Estq Final ",
      "Media", "Média", "Percent. Cap.", "Percent. Cap. Final Hoje",
      "Percent. Cap. Hoje", "Sugest.", "Sugest. ", "Venda Anterior",
      "Venda Utl. Medç", "Vendas", "Verificação", "Vol. Atual">>

ValuePool == {<<>>, <<"1", ",", "2", "3", "4">>, <<"a", "b", "c">>, <<"4", "2">>}

MkRow(k, n, v) == k @@ ("Measure Names" :> n) @@ ("Measure Values" :> v)

RowPool == {MkRow(k, n, v) : k \in KeyPool, n \in NamePool, v \in ValuePool}

AllColumns == Range(expected_columns) \cup {"Extra"}

KeyOf(r) == [c \in Range(pivot_index) |-> r[c]]

(***************************************************************************)
(* pd.read_csv(csv_path), default options.  An empty field is NaN.  With   *)
(* low_memory=True the parser infers the type of a column chunk by chunk:  *)
(* a chunk whose non-empty fields all parse is numeric, another chunk      *)
(* keeps its fields as str; when the chunks disagree the column is an      *)
(* object column that holds numbers and str side by side.  csv_chunk is    *)
(* the place of the chunk boundary in the file (0: the file is one chunk). *)
(* No thousands separator is given, so "1,234" does not parse here.        *)
(***************************************************************************)
\* rows of chunk number n (1 or 2) of the parser
ChunkOf(i) == IF i <= csv_chunk THEN 1 ELSE 2

\* a chunk of a column is numeric when each of its non-empty fields parses
ChunkIsNumeric(rows, n) ==
    \A i \in 1..Len(rows) :
        ChunkOf(i) = n =>
            \/ rows[i]["Measure Values"] = <<>>
            \/ IsDecimal(rows[i]["Measure Values"])

ReadValue(rows, i) ==
    LET s == rows[i]["Measure Values"] IN
    IF s = <<>> THEN NaN
    ELSE IF ChunkIsNumeric(rows, ChunkOf(i)) THEN NumCell(DecimalValue(s))
    ELSE StrCell(s)

ReadLabel(s) == IF s = "" THEN NaN ELSE StrCell(s)

ReadCsv(columns, rows) ==
    [columns |-> columns,
     rows |-> [i \in 1..Len(rows) |->
                 [c \in columns |->
                    IF c = "Measure Values" THEN ReadValue(rows, i)
                    ELSE IF c = "Extra" THEN StrCell("x")
                    ELSE ReadLabel(rows[i][c])]],
     dtype |-> IF ChunkIsNumeric(rows, 1) /\ ChunkIsNumeric(rows, 2)
               THEN "float64" ELSE "object"]

NoTable == [columns |-> {}, rows |-> <<>>, dtype |-> "object"]

(***************************************************************************)
(* DataProcessor._validate_columns                                         *)
(***************************************************************************)
\* mutant of ValidateColumnsOk: any() in place of all()
ValidateColumnsOk_Any(d) ==
    \E i \in 1..Len(self_expected_columns) : self_expected_columns[i] \in d.columns

ValidateColumnsOk(d) ==
    \A i \in 1..Len(self_expected_columns) : self_expected_columns[i] \in d.columns

SchemaError ==
    [type |-> "Exception",
     msg |-> "O CSV não contém todas as colunas esperadas: ",
     columns |-> self_expected_columns]

\* df["Measure Names"].unique().tolist(): first-seen order
RECURSIVE Unique(_)
Unique(s) ==
    IF Len(s) = 0 THEN <<>>
    ELSE LET head == Unique(SubSeq(s, 1, Len(s) - 1)) IN
         IF s[Len(s)] \in Range(head) THEN head ELSE Append(head, s[Len(s)])

MeasureNamesFound(d) ==
    Unique([i \in 1..Len(d.rows) |-> d.rows[i]["Measure Names"]])

(***************************************************************************)
(* DataProcessor._pivot_dataframe: pivot_table(index, columns, values,     *)
(* aggfunc="first").reset_index()                                          *)
(***************************************************************************)
MinOf(S) == CHOOSE m \in S : \A n \in S : m <= n

\* rows that groupby keeps: no missing value in the grouping columns
GroupedRows(d) ==
    {i \in 1..Len(d.rows) :
        /\ \A c \in Range(pivot_index) : ~IsNaN(d.rows[i][c])
        /\ ~IsNaN(d.rows[i]["Measure Names"])}

\* mutant of First: the last value of the group wins
First_LastWins(d, k, n) ==
    LET idx == {i \in GroupedRows(d) :
                   /\ KeyOf(d.rows[i]) = k
                   /\ d.rows[i]["Measure Names"] = StrCell(n)
                   /\ ~IsNaN(d.rows[i]["Measure Values"])}
    IN IF idx = {} THEN NaN
       ELSE d.rows[CHOOSE m \in idx : \A x \in idx : x <= m]["Measure Values"]

\* aggfunc="first": the first value of the group that is not missing
First(d, k, n) ==
    LET idx == {i \in GroupedRows(d) :
                   /\ KeyOf(d.rows[i]) = k
                   /\ d.rows[i]["Measure Names"] = StrCell(n)
                   /\ ~IsNaN(d.rows[i]["Measure Values"])}
    IN IF idx = {} THEN NaN ELSE d.rows[MinOf(idx)]["Measure Values"]

\* mutant of Agged: groups whose values are all missing are kept
Agged_KeepsEmptyGroups(d) ==
    {<<KeyOf(d.rows[i]), d.rows[i]["Measure Names"].s>> : i \in GroupedRows(d)}

\* groups left after the aggregation and dropna(how="all")
Agged(d) ==
    {<<KeyOf(d.rows[i]), d.rows[i]["Measure Names"].s>> : i \in
        {j \in GroupedRows(d) :
            ~IsNaN(First(d, KeyOf(d.rows[j]), d.rows[j]["Measure Names"].s))}}

KeyCells(k) == [c \in DOMAIN k |-> ReadLabel(k[c])]

SortedKeys(S) ==
    SelectSeq([i \in 1..Len(KeyOrder) |-> KeyCells(KeyOrder[i])],
              LAMBDA k : k \in S)

SortedNames(S) == SelectSeq(NameOrder, LAMBDA n : n \in S)

PivotDataframe(d) ==
    LET agged == Agged(d)
        keys == SortedKeys({g[1] : g \in agged})
        names == SortedNames({g[2] : g \in agged})
    IN [columns |-> pivot_index \o names,
        rows |-> [i \in 1..Len(keys) |->
                    [c \in Range(pivot_index) \cup Range(names) |->
                        IF c \in Range(pivot_index) THEN keys[i][c]
                        ELSE IF <<keys[i], c>> \in agged THEN First(d, keys[i], c)
                        ELSE NaN]],
        dtype |-> [c \in Range(names) |-> d.dtype]]

NoPivot == [columns |-> <<>>, rows |-> <<>>, dtype |-> <<>>]

(***************************************************************************)
(* DataProcessor._reorder_columns                                          *)
(***************************************************************************)
MissingColumns(p) ==
    SelectSeq(self_measure_names_order, LAMBDA col : col \notin Range(p.columns))

\* mutant of AvailableMeasureNames: the catalog names in the order of the
\* pivoted table
AvailableMeasureNames_PivotOrder(p) ==
    SelectSeq(p.columns, LAMBDA col : col \in Range(self_measure_names_order))

\* mutant of AvailableMeasureNames: every measure column of the pivoted
\* table is kept, catalog names first
AvailableMeasureNames_KeepsUnknown(p) ==
    SelectSeq(self_measure_names_order, LAMBDA col : col \in Range(p.columns))
    \o SelectSeq(p.columns, LAMBDA col : col \notin Range(self_measure_names_order)
                                        /\ col \notin Range(leading_columns))

AvailableMeasureNames(p) ==
    IF MissingColumns(p) # <<>>
    THEN SelectSeq(self_measure_names_order, LAMBDA col : col \in Range(p.columns))
    ELSE self_measure_names_order

ColumnsOrder(p) == leading_columns \o AvailableMeasureNames(p)

\* mutant of SelectColumns: reindex on the whole catalog, a missing column
\* is filled with NaN
SelectColumns_Reindex(p, order) ==
    LET all == leading_columns \o self_measure_names_order IN
    [columns |-> all,
     rows |-> [i \in 1..Len(p.rows) |->
                 [c \in Range(all) |->
                    IF c \in DOMAIN p.rows[i] THEN p.rows[i][c] ELSE NaN]],
     dtype |-> [c \in Range(self_measure_names_order) |->
                  IF c \in DOMAIN p.dtype THEN p.dtype[c] ELSE "float64"]]

\* df_pivot[columns_order]
SelectColumns(p, order) ==
    [columns |-> order,
     rows |-> [i \in 1..Len(p.rows) |-> [c \in Range(order) |-> p.rows[i][c]]],
     dtype |-> [c \in Range(order) \cap DOMAIN p.dtype |-> p.dtype[c]]]

ReorderColumns(p) == SelectColumns(p, ColumnsOrder(p))

(***************************************************************************)
(* DataProcessor._process_numeric_values                                   *)
(***************************************************************************)
NumericColumns(p) ==
    SelectSeq(p.columns, LAMBDA col : col \notin Range(non_index_columns))

\* the .str accessor of an object column that holds numbers and no str
\* raises AttributeError
StrAccessorRaises(p, col) ==
    /\ \E i \in 1..Len(p.rows) : IsNum(p.rows[i][col])
    /\ ~\E i \in 1..Len(p.rows) : IsStr(p.rows[i][col])

\* the assignment df[col] = ... of one iteration of the loop
ProcessColumn(p, col) ==
    [columns |-> p.columns,
     rows |-> [i \in 1..Len(p.rows) |->
                 [c \in DOMAIN p.rows[i] |->
                    IF c # col THEN p.rows[i][c]
                    ELSE IF p.dtype[col] = "object"
                         THEN ToNumeric(StrReplaceCell(p.rows[i][c]))
                         ELSE ToNumeric(p.rows[i][c])]],
     dtype |-> [c \in DOMAIN p.dtype |-> IF c = col THEN "float64" ELSE p.dtype[c]]]

\* the loop over numeric_columns from position i on; it stops at the
\* first column whose .str accessor raises
RECURSIVE ProcessFrom(_, _, _)
ProcessFrom(p, cols, i) ==
    IF i > Len(cols) THEN [df |-> p, raised |-> FALSE]
    ELSE IF p.dtype[cols[i]] = "object" /\ StrAccessorRaises(p, cols[i])
         THEN [df |-> p, raised |-> TRUE]
         ELSE ProcessFrom(ProcessColumn(p, cols[i]), cols, i + 1)

ProcessNumericValues(p) == ProcessFrom(p, NumericColumns(p), 1)

AttributeError ==
    [type |-> "AttributeError",
     msg |-> "Can only use .str accessor with string values!"]

(***************************************************************************)
(* DataProcessor.transform_csv_to_xlsx                                     *)
(***************************************************************************)
NoError == [type |-> "none"]

NoFile == [exists |-> FALSE]

\* mutant of Wrapped: the exception leaves as it is
Wrapped_Verbatim(e) == e

\* except Exception as e: raise Exception(f"Erro ao transformar ...{str(e)}")
Wrapped(e) ==
    [type |-> "Exception",
     msg |-> "Erro ao transformar o CSV em XLSX: ",
     cause |-> e]

Fail(e) ==
    /\ pc' = "failed"
    /\ err' = Wrapped(e)

\* chunk boundaries of a file of n rows
Chunks(n) == {0} \cup 1..(n - 1)

\* DataProcessor(): the two attributes set by __init__, before any call
InitInstance ==
    /\ self_expected_columns = expected_columns
    /\ self_measure_names_order = measure_names_order
    /\ run_no = 1
    /\ first_run = [pc |-> "none"]

\* no uploader method is running
InitClientIdle ==
    /\ up_pc = "idle"
    /\ up_call = "none"
    /\ session = "none"
    /\ upload_path = <<>>
    /\ upload_file_on_disk =
          [exists |-> FALSE, size |-> 0, readable |-> FALSE]
    /\ requests_sent = 0
    /\ up_result = [outcome |-> "pending"]

\* no authenticator is in use
InitAuthIdle ==
    /\ auth_server = "None"
    /\ auth_signed_in = FALSE
    /\ auth_log = <<>>

\* main() is not running
InitAppIdle ==
    /\ os_environ = [name \in {} |-> ""]
    /\ config = [name \in {} |-> ""]
    /\ app_pc = "idle"
    /\ api_uploader = "unset"
    /\ main_steps = <<>>
    /\ step_i = 0
    /\ steps_log = <<>>
    /\ app_err = NoError

InitUploadIdle ==
    /\ status_code = 0
    /\ response_body = [kind |-> "none"]
    /\ file_path = ""
    /\ result = [outcome |-> "pending"]

\* the files of the model: files with the expected header and up to MaxRows
\* rows; and files with any header, missing, or with an unwritable target,
\* of at most one row
InitTransform ==
    /\ \/ /\ csv_columns = Range(expected_columns)
          /\ csv_exists = TRUE
          /\ xlsx_writable = TRUE
          /\ \E m \in 0..MaxRows : csv_rows \in [1..m -> RowPool]
          /\ csv_chunk \in Chunks(Len(csv_rows))
       \/ /\ csv_columns \in SUBSET AllColumns
          /\ csv_exists \in BOOLEAN
          /\ xlsx_writable \in BOOLEAN
          /\ \E m \in 0..1 : csv_rows \in [1..m -> RowPool]
          /\ csv_chunk = 0
    /\ pc = "load"
    /\ df = NoTable
    /\ df_pivot = NoPivot
    /\ printed = <<>>
    /\ xlsx = NoFile
    /\ err = NoError

Init ==
    /\ InitTransform
    /\ InitUploadIdle
    /\ InitInstance
    /\ InitClientIdle
    /\ InitAuthIdle
    /\ InitAppIdle

\* df = pd.read_csv(csv_path)
LoadCsv ==
    /\ pc = "load"
    /\ IF csv_exists
       THEN /\ df' = ReadCsv(csv_columns, csv_rows)
            /\ pc' = "validate"
            /\ err' = err
       ELSE /\ Fail([type |-> "FileNotFoundError"])
            /\ df' = df
    /\ UNCHANGED <<csv_exists, csv_columns, csv_rows, csv_chunk, xlsx_writable,
                   df_pivot, printed, xlsx>>
    /\ UNCHANGED <<uploadVars, instanceVars, clientVars, authVars, appVars>>

\* self._validate_columns(df) and the print of the measure names found
ValidateColumns ==
    /\ pc = "validate"
    /\ IF ValidateColumnsOk(df)
       THEN /\ printed' = Append(printed,
                  [text |-> "Colunas encontradas em 'Measure Names': ",
                   value |-> MeasureNamesFound(df)])
            /\ pc' = "pivot"
            /\ err' = err
       ELSE /\ Fail(SchemaError)
            /\ printed' = printed
    /\ UNCHANGED <<csv_exists, csv_columns, csv_rows, csv_chunk, xlsx_writable,
                   df, df_pivot, xlsx>>
    /\ UNCHANGED <<uploadVars, instanceVars, clientVars, authVars, appVars>>

\* df_pivot = self._pivot_dataframe(df)
Pivot ==
    /\ pc = "pivot"
    /\ df_pivot' = PivotDataframe(df)
    /\ pc' = "reorder"
    /\ UNCHANGED <<csv_exists, csv_columns, csv_rows, csv_chunk, xlsx_writable,
                   df, printed, xlsx, err>>
    /\ UNCHANGED <<uploadVars, instanceVars, clientVars, authVars, appVars>>

\* mutant of Reorder: the catalog attribute is cut down to the names found
Reorder_ShrinksCatalog ==
    /\ pc = "reorder"
    /\ printed' =
          IF MissingColumns(df_pivot) # <<>>
          THEN Append(printed,
                  [text |-> "Aviso: As seguintes colunas de Measure Names não estão no CSV: ",
                   value |-> MissingColumns(df_pivot)])
          ELSE printed
    /\ df_pivot' = ReorderColumns(df_pivot)
    /\ pc' = "normalize"
    /\ self_measure_names_order' = AvailableMeasureNames(df_pivot)
    /\ UNCHANGED <<csv_exists, csv_columns, csv_rows, csv_chunk, xlsx_writable,
                   df, xlsx, err>>
    /\ UNCHANGED <<self_expected_columns, run_no, first_run>>
    /\ UNCHANGED <<uploadVars, clientVars, authVars, appVars>>

\* df_pivot = self._reorder_columns(df_pivot)
Reorder ==
    /\ pc = "reorder"
    /\ printed' =
          IF MissingColumns(df_pivot) # <<>>
          THEN Append(printed,
                  [text |-> "Aviso: As seguintes colunas de Measure Names não estão no CSV: ",
                   value |-> MissingColumns(df_pivot)])
          ELSE printed
    /\ df_pivot' = ReorderColumns(df_pivot)
    /\ pc' = "normalize"
    /\ UNCHANGED <<csv_exists, csv_columns, csv_rows, csv_chunk, xlsx_writable,
                   df, xlsx, err>>
    /\ UNCHANGED <<uploadVars, instanceVars, clientVars, authVars, appVars>>

\* df_pivot = self._process_numeric_values(df_pivot)
ProcessNumeric ==
    /\ pc = "normalize"
    /\ LET r == ProcessNumericValues(df_pivot) IN
          /\ df_pivot' = r.df
          /\ IF r.raised
             THEN Fail(AttributeError)
             ELSE /\ pc' = "save"
                  /\ err' = err
    /\ UNCHANGED <<csv_exists, csv_columns, csv_rows, csv_chunk, xlsx_writable,
                   df, printed, xlsx>>
    /\ UNCHANGED <<uploadVars, instanceVars, clientVars, authVars, appVars>>

\* mutant of SaveToXlsx: the file is also written before the normalizer
SaveToXlsx_Early ==
    /\ pc \in {"normalize", "save"}
    /\ IF xlsx_writable
       THEN /\ xlsx' = [exists |-> TRUE, columns |-> df_pivot.columns,
                        rows |-> df_pivot.rows]
            /\ printed' = Append(printed,
                  [text |-> "Dados transformados salvos em: ", value |-> <<>>])
            /\ pc' = "done"
            /\ err' = err
       ELSE /\ Fail([type |-> "PermissionError"])
            /\ xlsx' = xlsx
            /\ printed' = printed
    /\ UNCHANGED <<csv_exists, csv_columns, csv_rows, csv_chunk, xlsx_writable,
                   df, df_pivot>>
    /\ UNCHANGED <<uploadVars, instanceVars, clientVars, authVars, appVars>>

\* self._save_to_xlsx(df_pivot, xlsx_path)
SaveToXlsx ==
    /\ pc = "save"
    /\ IF xlsx_writable
       THEN /\ xlsx' = [exists |-> TRUE, columns |-> df_pivot.columns,
                        rows |-> df_pivot.rows]
            /\ printed' = Append(printed,
                  [text |-> "Dados transformados salvos em: ", value |-> <<>>])
            /\ pc' = "done"
            /\ err' = err
       ELSE /\ Fail([type |-> "PermissionError"])
            /\ xlsx' = xlsx
            /\ printed' = printed
    /\ UNCHANGED <<csv_exists, csv_columns, csv_rows, csv_chunk, xlsx_writable,
                   df, df_pivot>>
    /\ UNCHANGED <<uploadVars, instanceVars, clientVars, authVars, appVars>>

Next ==
    \/ LoadCsv
    \/ ValidateColumns
    \/ Pivot
    \/ Reorder
    \/ ProcessNumeric
    \/ SaveToXlsx

Spec == Init /\ [][Next]_vars

(***************************************************************************)
(* CombustivelAPIClient._handle_response                                   *)
(***************************************************************************)
MinStatus == 100
MaxStatus == 599

StatusCodes == MinStatus..MaxStatus

\* bodies of a response: a JSON object with or without "message", a JSON
\* value that is not an object, and a body that is not JSON
BodyPool ==
    {[kind |-> "dict", has_message |-> TRUE, message |-> "detalhe"],
     [kind |-> "dict", has_message |-> FALSE, message |-> ""],
     [kind |-> "list", has_message |-> FALSE, message |-> ""],
     [kind |-> "text", has_message |-> FALSE, message |-> "corpo"]}

PathPool == {"saida.xlsx", "dados.xlsx"}

\* response.json(), or {"message": response.text} on ValueError
ResponseData(body) ==
    IF body.kind = "text"
    THEN [kind |-> "dict", has_message |-> TRUE, message |-> body.message]
    ELSE body

Return(code, data, path) ==
    [outcome |-> "return",
     value |-> [success |-> TRUE, status_code |-> code,
                message |-> "Upload realizado com sucesso",
                data |-> data, file_path |-> path]]

Raise(type, msg, detail) ==
    [outcome |-> "raise", type |-> type, msg |-> msg, detail |-> detail]

\* raise Exception(f"{prefix}{response_data.get('message', default)}");
\* .get exists on a dict only
RaiseWithMessage(prefix, data, default) ==
    IF data.kind = "dict"
    THEN Raise("Exception", prefix,
               IF data.has_message THEN data.message ELSE default)
    ELSE Raise("AttributeError", "object has no attribute 'get'", "")

HandleResponseResult(code, body, path) ==
    LET response_data == ResponseData(body) IN
    IF code = 201 THEN Return(code, response_data, path)
    ELSE IF code = 200 THEN Return(code, response_data, path)
    ELSE IF code = 401
    THEN Raise("Exception",
               "Erro de autenticação. Verifique o token de autorização.", "")
    ELSE IF code = 413
    THEN Raise("Exception", "Arquivo muito grande para upload.", "")
    ELSE IF code = 422
    THEN RaiseWithMessage("Erro de validação: ", response_data, "Dados inválidos")
    ELSE IF code >= 500
    THEN RaiseWithMessage("Erro interno do servidor: ", response_data,
                          "Erro desconhecido")
    ELSE RaiseWithMessage("Erro no upload (HTTP ", response_data,
                          "Erro desconhecido")

InitTransformIdle ==
    /\ csv_exists = FALSE
    /\ csv_columns = {}
    /\ csv_rows = <<>>
    /\ csv_chunk = 0
    /\ xlsx_writable = FALSE
    /\ pc = "idle"
    /\ df = NoTable
    /\ df_pivot = NoPivot
    /\ printed = <<>>
    /\ xlsx = NoFile
    /\ err = NoError

InitUpload ==
    /\ status_code \in StatusCodes
    /\ response_body \in BodyPool
    /\ file_path \in PathPool
    /\ result = [outcome |-> "pending"]
    /\ InitTransformIdle
    /\ InitInstance
    /\ InitClientIdle
    /\ InitAuthIdle
    /\ InitAppIdle

HandleResponse ==
    /\ result.outcome = "pending"
    /\ result' = HandleResponseResult(status_code, response_body, file_path)
    /\ UNCHANGED <<status_code, response_body, file_path>>
    /\ UNCHANGED <<transformVars, instanceVars, clientVars, authVars, appVars>>

NextUpload == HandleResponse

SpecUpload == InitUpload /\ [][NextUpload]_vars

(***************************************************************************)
(* Properties of the transformation.                                       *)
(***************************************************************************)
AfterPivot == pc \in {"reorder", "normalize", "save", "done"}

AfterReorder == pc \in {"normalize", "save", "done"}

EntityKey == <<"Cidades", "Origens", "Turno + Data", "Combustíveis", "Medição">>

\* the key of a row (of the file or of a table) as a 5-tuple
KeyTuple(r) == [n \in 1..5 |-> r[EntityKey[n]]]

\* the 5-tuple of labels as the 5-tuple of text cells
AsCells(k) == [n \in 1..5 |-> StrCell(k[n])]

InputRows == 1..Len(csv_rows)

KeyIsComplete(i) == \A n \in 1..5 : csv_rows[i][EntityKey[n]] # ""

HasValue(i) == csv_rows[i]["Measure Values"] # <<>>

InputKeys == {KeyTuple(csv_rows[i]) : i \in InputRows}

\* keys with all five fields present and at least one non-empty value
KeysWithValue ==
    {KeyTuple(csv_rows[i]) : i \in {j \in InputRows : KeyIsComplete(j) /\ HasValue(j)}}

TableKeys(rows) == {KeyTuple(rows[j]) : j \in 1..Len(rows)}

CatalogPos(name) ==
    IF \E n \in 1..Len(measure_names_order) : measure_names_order[n] = name
    THEN CHOOSE n \in 1..Len(measure_names_order) : measure_names_order[n] = name
    ELSE 0

ColumnOrderOk(cols) ==
    /\ Len(cols) >= 5
    /\ SubSeq(cols, 1, 5) = EntityKey
    /\ \A a \in 6..Len(cols) : CatalogPos(cols[a]) > 0
    /\ \A a, b \in 6..Len(cols) : a < b => CatalogPos(cols[a]) < CatalogPos(cols[b])

\* C2: after the reorder step and in the written file the first five columns
\* are the key columns in the fixed order and the other columns are catalog
\* names in strictly increasing catalog position (so none appears twice).
C2_ColumnOrder ==
    /\ AfterReorder => ColumnOrderOk(df_pivot.columns)
    /\ xlsx.exists => ColumnOrderOk(xlsx.columns)

\* a written file with the columns Vendas, Estoque in catalog order, which
\* is not the alphabetical order of the pivoted table
C2_Witness ==
    /\ pc = "done"
    /\ xlsx.exists
    /\ xlsx.columns = EntityKey \o <<"Vendas", "Estoque">>

\* the cell the normalizer is to produce from a cell, as C3 states it
C3_Expected(c) ==
    IF c.t = "num" THEN c
    ELSE IF c.t = "str" /\ IsDecimal(SelectSeq(c.s, LAMBDA ch : ch # ","))
         THEN NumCell(DecimalValue(SelectSeq(c.s, LAMBDA ch : ch # ",")))
         ELSE NaN

\* C3 as stated: every cell of every non-key column is mapped to the parse
\* of its text without commas, to the missing marker when that is not a
\* decimal number, and a numeric cell keeps its value, whatever the other
\* cells of its column are.  The table before the normalizer is the
\* reordered pivot of the loaded table.
C3_Original ==
    pc \in {"save", "done"} =>
        LET before == ReorderColumns(PivotDataframe(df)) IN
        \A i \in 1..Len(before.rows) :
            \A a \in 6..Len(before.columns) :
                df_pivot.rows[i][before.columns[a]]
                    = C3_Expected(before.rows[i][before.columns[a]])

\* C4: the step of the validator fails if and only if one of the seven
\* required columns is absent from the header; the error then names the
\* seven required columns; otherwise the run goes on to the pivot; the
\* loaded table is the same after the step.
C4_Validator ==
    [][pc = "validate" =>
          LET absent == \E c \in {"Cidades", "Combustíveis", "Measure Names",
                                 "Origens", "Medição", "Turno + Data",
                                 "Measure Values"} : c \notin csv_columns
          IN /\ df' = df
             /\ (pc' = "failed") <=> absent
             /\ (pc' = "pivot") <=> ~absent
             /\ absent =>
                   /\ err'.cause.type = "Exception"
                   /\ err'.cause.columns =
                        <<"Cidades", "Combustíveis", "Measure Names", "Origens",
                          "Medição", "Turno + Data", "Measure Values">>
             /\ ~absent => err' = NoError]_vars

\* the validator has failed on a header that has an extra column and lacks
\* only Measure Values
C4_Witness ==
    /\ pc = "failed"
    /\ err.cause = SchemaError
    /\ csv_columns = (Range(expected_columns) \ {"Measure Values"}) \cup {"Extra"}

StageOrder ==
    {<<"load", "validate">>, <<"validate", "pivot">>, <<"pivot", "reorder">>,
     <<"reorder", "normalize">>, <<"normalize", "save">>, <<"save", "done">>}

\* C5: the position moves along load, validate, pivot, reorder, normalize,
\* save, done, or from a stage to failed; the output file changes only in
\* the step from save to done; a failed run has written nothing.
C5_StageOrder ==
    [][/\ pc' # pc => (<<pc, pc'>> \in StageOrder \/ pc' = "failed")
       /\ xlsx' # xlsx => (pc = "save" /\ pc' = "done")
       /\ pc' = "failed" => ~xlsx'.exists]_vars

\* the normalizer has raised and no file was written
C5_Witness ==
    /\ pc = "failed"
    /\ err.cause = AttributeError
    /\ ~xlsx.exists

WarningText == "Aviso: As seguintes colunas de Measure Names não estão no CSV: "

\* measure names of the input that are not in the catalog
UnknownNames ==
    {csv_rows[i]["Measure Names"] : i \in
        {j \in InputRows : CatalogPos(csv_rows[j]["Measure Names"]) = 0}}

\* unknown measure names that have a column in the pivoted table: a row
\* with a complete key and a value
UnknownColumns ==
    {csv_rows[i]["Measure Names"] : i \in
        {j \in InputRows : /\ CatalogPos(csv_rows[j]["Measure Names"]) = 0
                           /\ KeyIsComplete(j)
                           /\ HasValue(j)}}

Warnings == {m \in Range(printed) : m.text = WarningText}

C7_MissingOmitted ==
    [][pc = "reorder" =>
          /\ pc' = "normalize"
          /\ err' = NoError
          /\ \A n \in 1..Len(measure_names_order) :
                measure_names_order[n] \notin Range(df_pivot.columns)
                    => measure_names_order[n] \notin Range(df_pivot'.columns)
          /\ \A i \in 1..Len(df_pivot'.rows) :
                DOMAIN df_pivot'.rows[i] = Range(df_pivot'.columns)]_vars

\* all 23 catalog names are missing from a pivoted table that has a row
C7_Witness ==
    /\ pc = "normalize"
    /\ Len(df_pivot.rows) >= 1
    /\ df_pivot.columns = EntityKey

\* C9: for a readable file with the seven required columns and no data row
\* (and a writable target) the run never fails, the table has no row and
\* only the five key columns after the reorder step, and so has the file
\* written at the end.
C9_EmptyInput ==
    (/\ csv_exists
     /\ xlsx_writable
     /\ Range(expected_columns) \subseteq csv_columns
     /\ csv_rows = <<>>) =>
        /\ pc # "failed"
        /\ err = NoError
        /\ AfterReorder =>
              /\ df_pivot.rows = <<>>
              /\ df_pivot.columns = EntityKey
        /\ pc = "done" =>
              /\ xlsx.exists
              /\ xlsx.rows = <<>>
              /\ xlsx.columns = EntityKey

\* the run on a header-only file is done and has written the file
C9_Witness ==
    /\ pc = "done"
    /\ csv_rows = <<>>
    /\ xlsx.exists
    /\ xlsx.rows = <<>>

\* rows of the loaded table that match a wide row and a measure name
Matching(row, name) ==
    {i \in 1..Len(df.rows) :
        /\ KeyTuple(df.rows[i]) = KeyTuple(row)
        /\ df.rows[i]["Measure Names"] = StrCell(name)}

Lowest(S) == CHOOSE m \in S : \A x \in S : m <= x

\* C10 as stated: a pivoted cell holds the Measure Values cell of the first
\* matching row in load order, also when that cell is missing; it is
\* missing when no row matches.
C10_Original ==
    pc = "reorder" =>
        \A j \in 1..Len(df_pivot.rows) :
            \A a \in 6..Len(df_pivot.columns) :
                LET m == Matching(df_pivot.rows[j], df_pivot.columns[a]) IN
                df_pivot.rows[j][df_pivot.columns[a]] =
                    IF m = {} THEN NaN ELSE df.rows[Lowest(m)]["Measure Values"]

\* C10 amended: a pivoted cell holds the Measure Values cell of the first
\* matching row in load order whose Measure Values cell is not missing;
\* matching rows with a missing cell are skipped, later rows never
\* influence the cell; it is missing when no matching row has a value.
C10_FirstNonMissing ==
    pc = "reorder" =>
        \A j \in 1..Len(df_pivot.rows) :
            \A a \in 6..Len(df_pivot.columns) :
                LET m == {i \in Matching(df_pivot.rows[j], df_pivot.columns[a]) :
                             df.rows[i]["Measure Values"].t # "nan"}
                IN df_pivot.rows[j][df_pivot.columns[a]] =
                    IF m = {} THEN NaN ELSE df.rows[Lowest(m)]["Measure Values"]

\* two rows of the same key and measure name with different values: the
\* cell holds the first and the second is discarded
C10_Witness ==
    /\ pc = "reorder"
    /\ Len(df.rows) >= 2
    /\ KeyTuple(df.rows[1]) = KeyTuple(df.rows[2])
    /\ df.rows[1]["Measure Names"] = df.rows[2]["Measure Names"]
    /\ df.rows[1]["Measure Values"].t # "nan"
    /\ df.rows[2]["Measure Values"].t # "nan"
    /\ df.rows[1]["Measure Values"] # df.rows[2]["Measure Values"]
    /\ Len(df_pivot.rows) = 1
    /\ df_pivot.rows[1][df_pivot.columns[6]] = df.rows[1]["Measure Values"]

(***************************************************************************)
(* Properties of the response handler.                                     *)
(***************************************************************************)
\* C8 as stated: 200 and 201 return a success result with the status code
\* and the file path; 401, 413, 422, codes from 500 on and every other code
\* raise the error of their class; only 200 and 201 return.
C8_Original ==
    result.outcome # "pending" =>
        /\ status_code \in {200, 201} =>
              /\ result.outcome = "return"
              /\ result.value.success = TRUE
              /\ result.value.status_code = status_code
              /\ result.value.file_path = file_path
        /\ status_code \notin {200, 201} =>
              /\ result.outcome = "raise"
              /\ result.msg =
                    CASE status_code = 401 ->
                           "Erro de autenticação. Verifique o token de autorização."
                      [] status_code = 413 -> "Arquivo muito grande para upload."
                      [] status_code = 422 -> "Erro de validação: "
                      [] status_code >= 500 -> "Erro interno do servidor: "
                      [] OTHER -> "Erro no upload (HTTP "

\* the required columns that are absent from the header, in list order
MissingRequired ==
    SelectSeq(<<"Cidades", "Combustíveis", "Measure Names", "Origens",
                "Medição", "Turno + Data", "Measure Values">>,
              LAMBDA c : c \notin csv_columns)

\* C11 as stated: when required columns are missing the run is aborted and
\* the error that leaves transform_csv_to_xlsx is the schema error itself,
\* not wrapped, and it carries the list of the missing columns.
C11_Original ==
    (pc = "failed" /\ csv_exists /\ MissingRequired # <<>>) =>
        /\ err.msg = "O CSV não contém todas as colunas esperadas: "
        /\ err.columns = MissingRequired

\* C11 amended: when required columns are missing the run is aborted before
\* the pivot and nothing is written; the error that leaves
\* transform_csv_to_xlsx is a new Exception with the prefix "Erro ao
\* transformar o CSV em XLSX: " around the message of the schema error, and
\* that message lists all seven required columns, not the missing ones.
C11_SchemaErrorWrapped ==
    (csv_exists /\ MissingRequired # <<>>) =>
        /\ pc \in {"load", "validate", "failed"}
        /\ ~xlsx.exists
        /\ pc = "failed" =>
              /\ err.type = "Exception"
              /\ err.msg = "Erro ao transformar o CSV em XLSX: "
              /\ err.cause.type = "Exception"
              /\ err.cause.msg = "O CSV não contém todas as colunas esperadas: "
              /\ err.cause.columns =
                    <<"Cidades", "Combustíveis", "Measure Names", "Origens",
                      "Medição", "Turno + Data", "Measure Values">>

\* the run has failed on a header that lacks exactly two required columns
C11_Witness ==
    /\ pc = "failed"
    /\ csv_exists
    /\ Len(MissingRequired) = 2
    /\ err.cause.columns # MissingRequired

\* C12 as stated: the step of the normalizer never raises, whatever the
\* cells are: it goes on to the write stage, every cell of a measure column
\* is a number or the missing marker afterwards, and the five key columns
\* are unchanged.
C12_Original ==
    [][pc = "normalize" =>
          /\ pc' = "save"
          /\ err' = NoError
          /\ \A i \in 1..Len(df_pivot.rows) :
                /\ \A n \in 1..5 :
                      df_pivot'.rows[i][EntityKey[n]] = df_pivot.rows[i][EntityKey[n]]
                /\ \A a \in 6..Len(df_pivot.columns) :
                      df_pivot'.rows[i][df_pivot.columns[a]].t \in {"num", "nan"}]_vars

\* catalog names that occur as a Measure Names value of the input
CatalogNamesObserved ==
    {csv_rows[i]["Measure Names"] : i \in
        {j \in InputRows : CatalogPos(csv_rows[j]["Measure Names"]) > 0}}

\* catalog names that occur in a row with a complete key and a value
CatalogNamesWithValue ==
    {csv_rows[i]["Measure Names"] : i \in
        {j \in InputRows : /\ CatalogPos(csv_rows[j]["Measure Names"]) > 0
                           /\ KeyIsComplete(j)
                           /\ HasValue(j)}}

MeasureColumns(cols) == {cols[a] : a \in 6..Len(cols)}

\* C13 as stated: the measure columns of the final table are the catalog
\* names observed in the input, also a name whose Measure Values cells are
\* all empty or unparseable (inputs whose key fields are all present).
C13_Original ==
    (\A i \in InputRows : KeyIsComplete(i)) =>
        /\ AfterReorder => MeasureColumns(df_pivot.columns) = CatalogNamesObserved
        /\ xlsx.exists => MeasureColumns(xlsx.columns) = CatalogNamesObserved

\* C13 amended: the measure columns of the final table are the catalog
\* names that occur in at least one input row with a complete key and a
\* non-empty Measure Values cell; such a name gets a column also when all
\* of its cells are unparseable (the column is then all missing), and a
\* name whose cells are all empty gets no column.
C13_ColumnsOfNamesWithValue ==
    /\ AfterReorder => MeasureColumns(df_pivot.columns) = CatalogNamesWithValue
    /\ xlsx.exists => MeasureColumns(xlsx.columns) = CatalogNamesWithValue

\* a written file with the column of a catalog name whose only cell is
\* unparseable, and without the column of a catalog name whose only cell
\* is empty
C13_Witness ==
    /\ pc = "done"
    /\ xlsx.exists
    /\ Cardinality(CatalogNamesObserved) = 2
    /\ Len(xlsx.columns) = 6
    /\ \A i \in 1..Len(xlsx.rows) : xlsx.rows[i][xlsx.columns[6]] = NaN


(***************************************************************************)
(* A second call of transform_csv_to_xlsx on the same DataProcessor, with  *)
(* the same paths and the same input file.                                 *)
(***************************************************************************)
Finished == pc \in {"done", "failed"}

\* what a call leaves behind: how it ended, the output file, the exception
\* and the messages it printed
RunOutcome == [pc |-> pc, xlsx |-> xlsx, err |-> err, printed |-> printed]

\* the caller calls transform_csv_to_xlsx(csv_path, xlsx_path) again: the
\* locals are fresh, the files and the instance are as the first call left
\* them
Rerun ==
    /\ Finished
    /\ run_no = 1
    /\ run_no' = 2
    /\ first_run' = RunOutcome
    /\ pc' = "load"
    /\ df' = NoTable
    /\ df_pivot' = NoPivot
    /\ err' = NoError
    /\ printed' = <<>>
    /\ UNCHANGED <<csv_exists, csv_columns, csv_rows, csv_chunk, xlsx_writable,
                   xlsx>>
    /\ UNCHANGED <<self_expected_columns, self_measure_names_order>>
    /\ UNCHANGED <<uploadVars, clientVars, authVars, appVars>>

NextRerun ==
    \/ Next
    \/ Rerun

SpecRerun == Init /\ [][NextRerun]_vars

\* C14: a second run of the transformation on the same instance and the same
\* input ends as the first did, with the same output table, the same error
\* and the same messages; no run changes the Measure Catalog or the list of
\* required columns.
C14_Idempotent ==
    /\ self_measure_names_order = measure_names_order
    /\ self_expected_columns = expected_columns
    /\ (run_no = 2 /\ Finished) => RunOutcome = first_run

\* a second run has written a table with a row, after a warning about
\* catalog names that are not in the input
C14_Witness ==
    /\ run_no = 2
    /\ pc = "done"
    /\ first_run.pc = "done"
    /\ Len(xlsx.rows) >= 1
    /\ \E m \in Range(printed) : m.text = WarningText


(***************************************************************************)
(* TableauAuthenticator (auth.py): authenticate and get_server, called in  *)
(* any order on one authenticator.                                         *)
(***************************************************************************)
MaxCalls == 4

\* what the Tableau server does to one call of authenticate: TSC.Server(...)
\* raises, sign_in raises, or both succeed
AuthOutcomes == {"server_error", "sign_in_error", "ok"}

\* self.server after authenticate: line 25 assigns it before sign_in runs
ServerAfterAuthenticate(outcome) ==
    IF outcome = "server_error" THEN auth_server ELSE "Server"

SignedInAfterAuthenticate(outcome) ==
    IF outcome = "server_error" THEN auth_signed_in ELSE outcome = "ok"

\* except Exception as e: raise Exception(f"Erro na autenticação: {str(e)}")
AuthenticateResult(outcome) ==
    IF outcome = "ok"
    THEN [call |-> "authenticate", outcome |-> "return", signed_in |-> TRUE,
          msg |-> ""]
    ELSE [call |-> "authenticate", outcome |-> "raise", signed_in |-> FALSE,
          msg |-> "Erro na autenticação: "]

GetServerResult ==
    IF auth_server = "None"
    THEN [call |-> "get_server", outcome |-> "raise", signed_in |-> FALSE,
          msg |-> "Servidor não autenticado. Chame authenticate() primeiro."]
    ELSE [call |-> "get_server", outcome |-> "return",
          signed_in |-> auth_signed_in, msg |-> ""]

InitAuth ==
    /\ auth_server = "None"
    /\ auth_signed_in = FALSE
    /\ auth_log = <<>>
    /\ InitTransformIdle
    /\ InitUploadIdle
    /\ InitInstance
    /\ InitClientIdle
    /\ InitAppIdle

Authenticate ==
    /\ Len(auth_log) < MaxCalls
    /\ \E outcome \in AuthOutcomes :
          /\ auth_server' = ServerAfterAuthenticate(outcome)
          /\ auth_signed_in' = SignedInAfterAuthenticate(outcome)
          /\ auth_log' = Append(auth_log, AuthenticateResult(outcome))
    /\ UNCHANGED <<transformVars, uploadVars, instanceVars, clientVars, appVars>>

GetServer ==
    /\ Len(auth_log) < MaxCalls
    /\ auth_log' = Append(auth_log, GetServerResult)
    /\ UNCHANGED <<auth_server, auth_signed_in>>
    /\ UNCHANGED <<transformVars, uploadVars, instanceVars, clientVars, appVars>>

NextAuth ==
    \/ Authenticate
    \/ GetServer

SpecAuth == InitAuth /\ [][NextAuth]_vars

\* the calls of authenticate before call i that returned
SucceededBefore(i) ==
    {j \in 1..(i - 1) : /\ auth_log[j].call = "authenticate"
                        /\ auth_log[j].outcome = "return"}

\* C16: get_server returns a server only if an earlier authenticate() on the
\* same authenticator succeeded; when no authenticate() has succeeded, also
\* after a failed sign-in, get_server raises 'Servidor não autenticado'.
C16_Original ==
    \A i \in 1..Len(auth_log) :
        auth_log[i].call = "get_server" =>
            IF SucceededBefore(i) # {}
            THEN auth_log[i].outcome = "return"
            ELSE /\ auth_log[i].outcome = "raise"
                 /\ auth_log[i].msg =
                       "Servidor não autenticado. Chame authenticate() primeiro."


(***************************************************************************)
(* File validation of the upload client (api_integration.py, utils.py).    *)
(* A path is a sequence of characters, so that os.path.splitext and        *)
(* str.lower are computed character by character.                          *)
(***************************************************************************)
UpperCase ==
    <<"A", "B", "C", "D", "E", "F", "G", "H", "I", "J", "K", "L", "M",
      "N", "O", "P", "Q", "R", "S", "T", "U", "V", "W", "X", "Y", "Z">>

LowerCase ==
    <<"a", "b", "c", "d", "e", "f", "g", "h", "i", "j", "k", "l", "m",
      "n", "o", "p", "q", "r", "s", "t", "u", "v", "w", "x", "y", "z">>

LowerChar(c) ==
    IF \E k \in 1..Len(UpperCase) : UpperCase[k] = c
    THEN LowerCase[CHOOSE k \in 1..Len(UpperCase) : UpperCase[k] = c]
    ELSE c

\* str.lower()
Lower(s) == [k \in 1..Len(s) |-> LowerChar(s[k])]

\* str.rfind(c), counted from 1; 0 when c does not occur
RFind(s, c) ==
    IF \E k \in 1..Len(s) : s[k] = c
    THEN CHOOSE k \in 1..Len(s) :
            /\ s[k] = c
            /\ \A j \in (k + 1)..Len(s) : s[j] # c
    ELSE 0

\* os.path.splitext(p)[1]: the text from the last dot of the last path
\* component, unless that component has only dots before it
SplitExt(p) ==
    LET sepIndex == RFind(p, "/")
        dotIndex == RFind(p, ".")
    IN IF /\ dotIndex > sepIndex
          /\ \E k \in (sepIndex + 1)..(dotIndex - 1) : p[k] # "."
       THEN SubSeq(p, dotIndex, Len(p))
       ELSE <<>>

\* FileManager.get_file_extension
GetFileExtension(p) == Lower(SplitExt(p))

allowed_extensions ==
    {<<".", "x", "l", "s", "x">>, <<".", "x", "l", "s">>}

\* 50MB
max_size == 50 * 1024 * 1024

\* FileManager.get_file_size
GetFileSize(f) == IF f.exists THEN f.size ELSE 0

FileNotFound ==
    [type |-> "FileNotFoundError", msg |-> "Arquivo não encontrado: "]

ExtensionNotAllowed ==
    [type |-> "ValueError", msg |-> "Extensão não permitida. Extensões aceitas: "]

FileEmpty == [type |-> "ValueError", msg |-> "Arquivo está vazio: "]

FileTooLarge == [type |-> "ValueError", msg |-> "Arquivo muito grande"]

\* mutant of ValidateFile: a file of exactly max_size bytes is refused
ValidateFile_RefusesLimit(p, f) ==
    IF ~f.exists THEN FileNotFound
    ELSE IF GetFileExtension(p) \notin allowed_extensions
    THEN ExtensionNotAllowed
    ELSE IF GetFileSize(f) = 0 THEN FileEmpty
    ELSE IF GetFileSize(f) >= max_size THEN FileTooLarge
    ELSE NoError

\* CombustivelAPIClient._validate_file: the exception raised, or NoError
ValidateFile(p, f) ==
    IF ~f.exists THEN FileNotFound
    ELSE IF GetFileExtension(p) \notin allowed_extensions
    THEN ExtensionNotAllowed
    ELSE IF GetFileSize(f) = 0 THEN FileEmpty
    ELSE IF GetFileSize(f) > max_size THEN FileTooLarge
    ELSE NoError

\* paths of the model
UploadPathPool ==
    {<<"o", "/", "a", ".", "x", "l", "s", "x">>,
     <<"o", "/", "A", ".", "X", "L", "S", "X">>,
     <<"o", "/", "a", ".", "X", "l", "s">>,
     <<"a", ".", "x", "l", "s">>,
     <<"o", "/", "a", ".", "c", "s", "v">>,
     <<"o", "/", "a", ".", "x", "l", "s", "x", ".", "b", "a", "k">>,
     <<"o", "/", "a">>,
     <<"o", "/", ".", "x", "l", "s", "x">>,
     <<"o", ".", "x", "l", "s", "/", "a">>}

\* sizes of the model, around the two limits of the validation
SizePool == {0, 1, max_size - 1, max_size, max_size + 1}

\* files of the model: a missing file, and existing files of every size,
\* readable or not
FilePool ==
    {[exists |-> FALSE, size |-> 0, readable |-> FALSE]}
    \cup {[exists |-> TRUE, size |-> n, readable |-> r] :
             n \in SizePool, r \in BOOLEAN}


(***************************************************************************)
(* CombustivelAPIUploader.upload_file and test_api_connection: the client  *)
(* is created and entered, the client method runs, the client is left.     *)
(***************************************************************************)
Pending == [outcome |-> "pending"]

Returned(v) == [outcome |-> "return", value |-> v]

\* except Exception as e: raise Exception(f"Erro no upload do arquivo: ...")
UploadError(e) ==
    [outcome |-> "raise",
     exc |-> [type |-> "Exception", msg |-> "Erro no upload do arquivo: ",
              cause |-> e]]

\* what the network does to one request
NetOutcomes == {"response", "Timeout", "ConnectionError", "RequestException"}

\* the except clauses of _make_upload_request
RequestError(net) ==
    [type |-> "Exception",
     msg |-> IF net = "Timeout" THEN "Timeout na requisição após "
             ELSE IF net = "ConnectionError" THEN "Erro de conexão com a API: "
             ELSE "Erro na requisição HTTP: "]

success_codes == {200, 201, 204, 404}

\* the value test_connection returns
TestConnectionResult(net, code) ==
    IF net = "response" THEN code \in success_codes \/ code < 500 ELSE FALSE

UploaderCalls == {"upload_file", "test_api_connection"}

\* a call of one uploader method is about to create its client
InitClientCall ==
    /\ up_pc = "enter"
    /\ up_call \in UploaderCalls
    /\ IF up_call = "upload_file"
       THEN /\ upload_path \in UploadPathPool
            /\ upload_file_on_disk \in FilePool
       ELSE /\ upload_path = <<>>
            /\ upload_file_on_disk =
                  [exists |-> FALSE, size |-> 0, readable |-> FALSE]
    /\ session = "none"
    /\ requests_sent = 0
    /\ up_result = Pending

InitClient ==
    /\ InitClientCall
    /\ InitTransformIdle
    /\ InitUploadIdle
    /\ InitInstance
    /\ InitAuthIdle
    /\ InitAppIdle

\* with CombustivelAPIClient(...) as client: __init__ opens the session
ClientEnter ==
    /\ up_pc = "enter"
    /\ session' = "open"
    /\ up_pc' = IF up_call = "upload_file" THEN "validate" ELSE "test"
    /\ UNCHANGED <<up_call, upload_path, upload_file_on_disk, requests_sent,
                   up_result>>
    /\ UNCHANGED <<transformVars, uploadVars, instanceVars, authVars, appVars>>

\* self._validate_file(file_path)
ValidateUploadFile ==
    /\ up_pc = "validate"
    /\ LET e == ValidateFile(upload_path, upload_file_on_disk) IN
          IF e = NoError
          THEN /\ up_pc' = "open"
               /\ up_result' = up_result
          ELSE /\ up_pc' = "exit"
               /\ up_result' = UploadError(e)
    /\ UNCHANGED <<up_call, session, upload_path, upload_file_on_disk,
                   requests_sent>>
    /\ UNCHANGED <<transformVars, uploadVars, instanceVars, authVars, appVars>>

\* with open(file_path, 'rb') as file
OpenUploadFile ==
    /\ up_pc = "open"
    /\ IF upload_file_on_disk.readable
       THEN /\ up_pc' = "request"
            /\ up_result' = up_result
       ELSE /\ up_pc' = "exit"
            /\ up_result' = UploadError([type |-> "PermissionError"])
    /\ UNCHANGED <<up_call, session, upload_path, upload_file_on_disk,
                   requests_sent>>
    /\ UNCHANGED <<transformVars, uploadVars, instanceVars, authVars, appVars>>

\* response = self._make_upload_request(files, timeout)
MakeUploadRequest ==
    /\ up_pc = "request"
    /\ requests_sent' = requests_sent + 1
    /\ \E net \in NetOutcomes :
          IF net = "response"
          THEN /\ status_code' \in StatusCodes
               /\ response_body' \in BodyPool
               /\ up_pc' = "handle"
               /\ up_result' = up_result
          ELSE /\ up_pc' = "exit"
               /\ up_result' = UploadError(RequestError(net))
               /\ UNCHANGED <<status_code, response_body>>
    /\ UNCHANGED <<file_path, result>>
    /\ UNCHANGED <<up_call, session, upload_path, upload_file_on_disk>>
    /\ UNCHANGED <<transformVars, instanceVars, authVars, appVars>>

\* return self._handle_response(response, file_path)
HandleUploadResponse ==
    /\ up_pc = "handle"
    /\ result' = HandleResponseResult(status_code, response_body, upload_path)
    /\ up_result' = IF result'.outcome = "return"
                    THEN Returned(result'.value)
                    ELSE UploadError(result')
    /\ up_pc' = "exit"
    /\ UNCHANGED <<status_code, response_body, file_path>>
    /\ UNCHANGED <<up_call, session, upload_path, upload_file_on_disk,
                   requests_sent>>
    /\ UNCHANGED <<transformVars, instanceVars, authVars, appVars>>

\* return client.test_connection(): one GET, and every exception is caught
TestConnection ==
    /\ up_pc = "test"
    /\ requests_sent' = requests_sent + 1
    /\ \E net \in NetOutcomes :
          /\ IF net = "response"
             THEN status_code' \in StatusCodes
             ELSE status_code' = status_code
          /\ up_result' = Returned(TestConnectionResult(net, status_code'))
    /\ up_pc' = "exit"
    /\ UNCHANGED <<response_body, file_path, result>>
    /\ UNCHANGED <<up_call, session, upload_path, upload_file_on_disk>>
    /\ UNCHANGED <<transformVars, instanceVars, authVars, appVars>>

\* mutant of ClientExit: the session is closed only when nothing was raised
ClientExit_LeaksOnError ==
    /\ up_pc = "exit"
    /\ session' = IF up_result.outcome = "return" THEN "closed" ELSE session
    /\ up_pc' = IF up_result.outcome = "return" THEN "returned" ELSE "raised"
    /\ UNCHANGED <<up_call, upload_path, upload_file_on_disk, requests_sent,
                   up_result>>
    /\ UNCHANGED <<transformVars, uploadVars, instanceVars, authVars, appVars>>

\* __exit__: self.close(); it returns None, so an exception goes on
ClientExit ==
    /\ up_pc = "exit"
    /\ session' = "closed"
    /\ up_pc' = IF up_result.outcome = "return" THEN "returned" ELSE "raised"
    /\ UNCHANGED <<up_call, upload_path, upload_file_on_disk, requests_sent,
                   up_result>>
    /\ UNCHANGED <<transformVars, uploadVars, instanceVars, authVars, appVars>>

NextClient ==
    \/ ClientEnter
    \/ ValidateUploadFile
    \/ OpenUploadFile
    \/ MakeUploadRequest
    \/ HandleUploadResponse
    \/ TestConnection
    \/ ClientExit

SpecClient == InitClient /\ [][NextClient]_vars


(***************************************************************************)
(* Properties of the uploader.                                             *)
(***************************************************************************)
UploaderDone == up_pc \in {"returned", "raised"}

\* the extension of the path is .xlsx or .xls in any mix of cases
ExtensionAccepted(p) ==
    \E e \in allowed_extensions :
        /\ Len(SplitExt(p)) = Len(e)
        /\ \A k \in 1..Len(e) : LowerChar(SplitExt(p)[k]) = e[k]

\* the four reasons of the claim for refusing a file
FileRefused ==
    \/ ~upload_file_on_disk.exists
    \/ ~ExtensionAccepted(upload_path)
    \/ upload_file_on_disk.size = 0
    \/ upload_file_on_disk.size > 50 * 1024 * 1024

\* C18: upload_file sends no HTTP request for a file that does not exist,
\* whose extension is not .xlsx or .xls (in any case), that is empty or that
\* is larger than 50 MB, and the call ends with an error; a readable file of
\* exactly 50 MB with an accepted extension is sent.
C18_ValidatedBeforeRequest ==
    up_call = "upload_file" =>
        /\ FileRefused =>
              /\ requests_sent = 0
              /\ UploaderDone =>
                    /\ up_pc = "raised"
                    /\ up_result.outcome = "raise"
        /\ ( /\ ~FileRefused
             /\ upload_file_on_disk.readable
             /\ UploaderDone ) => requests_sent = 1

\* a file one byte over the limit was refused without a request
C18_Witness ==
    /\ up_call = "upload_file"
    /\ up_pc = "raised"
    /\ upload_file_on_disk.exists
    /\ upload_file_on_disk.size = max_size + 1
    /\ ExtensionAccepted(upload_path)
    /\ requests_sent = 0
    /\ up_result = UploadError(FileTooLarge)

\* C19: when upload_file or test_api_connection returns or raises, the HTTP
\* session it opened is closed, and leaving the client changes neither the
\* value returned nor the exception raised by the client method.
C19_SessionClosed ==
    /\ [](UploaderDone => session = "closed")
    /\ [][(up_pc = "exit" /\ up_pc' # "exit") =>
              /\ session = "open"
              /\ up_result' = up_result
              /\ up_pc' = "raised" <=> up_result.outcome = "raise"]_vars

\* upload_file raised after a request that timed out, and the session is
\* closed
C19_Witness ==
    /\ up_call = "upload_file"
    /\ up_pc = "raised"
    /\ requests_sent = 1
    /\ up_result = UploadError(RequestError("Timeout"))
    /\ session = "closed"


(***************************************************************************)
(* main(): TableauAPIApp() and run() (main.py), with Config (config.py).   *)
(* A configuration value is a label; "" is a variable that is not set.     *)
(***************************************************************************)
required_configs ==
    <<"TABLEAU_SERVER", "TABLEAU_SITE_ID", "TABLEAU_TOKEN_NAME",
      "TABLEAU_TOKEN_VALUE", "WORKBOOK_ID", "VIEW_ID">>

\* the environments of the model: each required variable is set or not
EnvPool == [Range(required_configs) -> {"", "v"}]

\* Config._load_config: the nine attributes it sets, and no other
LoadConfig(env) ==
    [TABLEAU_SERVER |-> env["TABLEAU_SERVER"],
     TABLEAU_SITE_ID |-> env["TABLEAU_SITE_ID"],
     TABLEAU_TOKEN_NAME |-> env["TABLEAU_TOKEN_NAME"],
     TABLEAU_TOKEN_VALUE |-> env["TABLEAU_TOKEN_VALUE"],
     OUTPUT_DIR |-> "output",
     WORKBOOK_ID |-> env["WORKBOOK_ID"],
     VIEW_ID |-> env["VIEW_ID"],
     NAME_FILE_ORIGINAL |-> "BASE_DE_DADOS.csv",
     NAME_FILE_PROCESSED |-> "ANALISE_DE_PEDIDOS.xlsx"]

\* the three attributes TableauAPIApp reads and Config does not set
api_settings ==
    {"ENABLE_API_UPLOAD", "COMBUSTIVEL_API_URL", "COMBUSTIVEL_API_TOKEN"}

\* values of the three attributes on a configuration object that has them;
\* the labels "False" and "True" are the two Python booleans
ApiSettingsPool ==
    [ENABLE_API_UPLOAD : {"False", "True"},
     COMBUSTIVEL_API_URL : {"", "https://api"},
     COMBUSTIVEL_API_TOKEN : {"", "token"}]

\* the configuration objects TableauAPIApp() may get: the one Config builds,
\* and that one with the three attributes added
ConfigObjects(env) ==
    {LoadConfig(env)} \cup {LoadConfig(env) @@ a : a \in ApiSettingsPool}

HasApiSettings(c) == api_settings \subseteq DOMAIN c

\* bool(x) of a configuration value
Truthy(x) == x \notin {"", "False"}

\* the condition of lines 21-23, on a configuration that has the attributes
UploadConfigured(c) ==
    /\ Truthy(c["ENABLE_API_UPLOAD"])
    /\ Truthy(c["COMBUSTIVEL_API_URL"])
    /\ Truthy(c["COMBUSTIVEL_API_TOKEN"])

ConfigAttributeError ==
    [type |-> "AttributeError",
     msg |-> "'Config' object has no attribute 'ENABLE_API_UPLOAD'"]

\* Config.validate_config: the required attributes that are not set
MissingConfigs(c) ==
    SelectSeq(required_configs, LAMBDA name : ~Truthy(c[name]))

ValidateConfigOk(c) == MissingConfigs(c) = <<>>

\* except Exception as e: raise Exception(f"Erro na inicialização: {str(e)}")
InitializeError(e) ==
    [type |-> "Exception", msg |-> "Erro na inicialização: ", cause |-> e]

InitApp ==
    /\ os_environ \in EnvPool
    /\ config = [name \in {} |-> ""]
    /\ app_pc = "construct"
    /\ api_uploader = "unset"
    /\ main_steps = <<>>
    /\ step_i = 0
    /\ steps_log = <<>>
    /\ app_err = NoError
    /\ InitTransformIdle
    /\ InitUploadIdle
    /\ InitInstance
    /\ InitClientIdle
    /\ InitAuthIdle

\* app = TableauAPIApp()
Construct ==
    /\ app_pc = "construct"
    /\ \E c \in ConfigObjects(os_environ) :
          /\ config' = c
          /\ IF HasApiSettings(c)
             THEN /\ api_uploader' =
                        IF UploadConfigured(c) THEN "Uploader" ELSE "None"
                  /\ app_pc' = "validate_config"
                  /\ app_err' = app_err
             ELSE /\ api_uploader' = api_uploader
                  /\ app_pc' = "raised"
                  /\ app_err' = ConfigAttributeError
    /\ UNCHANGED <<os_environ, main_steps, step_i, steps_log>>
    /\ UNCHANGED <<transformVars, uploadVars, instanceVars, clientVars, authVars>>

\* initialize: self.config.validate_config()
ValidateConfig ==
    /\ app_pc = "validate_config"
    /\ steps_log' = Append(steps_log, "validate_config")
    /\ IF ValidateConfigOk(config)
       THEN /\ app_pc' = "ensure_output_directory"
            /\ app_err' = app_err
       ELSE /\ app_pc' = "raised"
            /\ app_err' = InitializeError(
                  [type |-> "Exception",
                   msg |-> "Configurações obrigatórias não definidas: ",
                   value |-> MissingConfigs(config)])
    /\ UNCHANGED <<os_environ, config, api_uploader, main_steps, step_i>>
    /\ UNCHANGED <<transformVars, uploadVars, instanceVars, clientVars, authVars>>

\* what the file system does to ensure_output_directory
DirOutcomes == {"exists", "created", "error"}

\* initialize: self.config.ensure_output_directory()
EnsureOutputDirectory ==
    /\ app_pc = "ensure_output_directory"
    /\ steps_log' = Append(steps_log, "ensure_output_directory")
    /\ \E outcome \in DirOutcomes :
          IF outcome = "error"
          THEN /\ app_pc' = "raised"
               /\ app_err' = InitializeError([type |-> "OSError"])
          ELSE /\ app_pc' = "authenticate"
               /\ app_err' = app_err
    /\ UNCHANGED <<os_environ, config, api_uploader, main_steps, step_i>>
    /\ UNCHANGED <<transformVars, uploadVars, instanceVars, clientVars, authVars>>

\* initialize: self.server = self.authenticator.authenticate()
AppAuthenticate ==
    /\ app_pc = "authenticate"
    /\ steps_log' = Append(steps_log, "authenticate")
    /\ \E outcome \in AuthOutcomes :
          /\ auth_server' = ServerAfterAuthenticate(outcome)
          /\ auth_signed_in' = SignedInAfterAuthenticate(outcome)
          /\ auth_log' = Append(auth_log, AuthenticateResult(outcome))
          /\ IF outcome = "ok"
             THEN /\ app_pc' = "create_exporter"
                  /\ app_err' = app_err
             ELSE /\ app_pc' = "raised"
                  /\ app_err' = InitializeError(
                        [type |-> "Exception", msg |-> "Erro na autenticação: "])
    /\ UNCHANGED <<os_environ, config, api_uploader, main_steps, step_i>>
    /\ UNCHANGED <<transformVars, uploadVars, instanceVars, clientVars>>

\* initialize: self.exporter = TableauExporter(self.server); then run builds
\* main_steps: export, transform, and the upload when line 91 holds
CreateExporter ==
    /\ app_pc = "create_exporter"
    /\ steps_log' = Append(steps_log, "create_exporter")
    /\ main_steps' =
          <<"export", "transform">> \o
          (IF Truthy(config["ENABLE_API_UPLOAD"]) /\ api_uploader # "None"
           THEN <<"upload">>
           ELSE <<>>)
    /\ step_i' = 1
    /\ app_pc' = "loop"
    /\ UNCHANGED <<os_environ, config, api_uploader, app_err>>
    /\ UNCHANGED <<transformVars, uploadVars, instanceVars, clientVars, authVars>>


\* the CSV files an export writes in the model: a file with one measurement,
\* a file with no rows, a file without the Measure Values column, and a
\* file whose Measure Values column is read in two chunks
ExportPool ==
    {[columns |-> Range(expected_columns),
      rows |-> <<MkRow(Key("CityA", "Gas"), "Vendas", <<"4", "2">>)>>,
      chunk |-> 0],
     [columns |-> Range(expected_columns), rows |-> <<>>, chunk |-> 0],
     [columns |-> Range(expected_columns) \ {"Measure Values"},
      rows |-> <<>>, chunk |-> 0],
     [columns |-> Range(expected_columns),
      rows |-> <<MkRow(Key("CityA", "Gas"), "Vendas", <<"4", "2">>),
                 MkRow(Key("CityA", "Gas"), "Estoque", <<"a", "b", "c">>)>>,
      chunk |-> 1]}

\* except Exception as e: raise Exception(f"Erro ao exportar ...")
ExportError ==
    [type |-> "Exception",
     msg |-> "Erro ao exportar a worksheet BASE DE DADOS: "]

\* xlsx_path: OUTPUT_DIR joined with NAME_FILE_PROCESSED
XlsxPath == <<"o", "/", "a", ".", "x", "l", "s", "x">>

\* sizes of the written XLSX file: under and over the upload limit
XlsxSizes == {1, max_size + 1}

CurrentStep ==
    IF app_pc = "loop" /\ step_i \in 1..Len(main_steps)
    THEN main_steps[step_i]
    ELSE "none"

\* step 1 of main_steps: self.exporter.export_base_dados_csv(...)
ExportStep ==
    /\ CurrentStep = "export"
    /\ steps_log' = Append(steps_log, "export")
    /\ \/ /\ app_pc' = "raised"
          /\ app_err' = ExportError
          /\ UNCHANGED <<step_i, transformVars>>
       \/ /\ \E f \in ExportPool :
                /\ csv_columns' = f.columns
                /\ csv_rows' = f.rows
                /\ csv_chunk' = f.chunk
          /\ csv_exists' = TRUE
          /\ xlsx_writable' \in BOOLEAN
          /\ step_i' = step_i + 1
          /\ UNCHANGED <<app_pc, app_err>>
          /\ UNCHANGED <<pc, df, df_pivot, printed, xlsx, err>>
    /\ UNCHANGED <<os_environ, config, api_uploader, main_steps>>
    /\ UNCHANGED <<uploadVars, instanceVars, clientVars, authVars>>

\* step 2 of main_steps: transform_csv_to_xlsx(csv_path, xlsx_path) is called
TransformStep ==
    /\ CurrentStep = "transform"
    /\ steps_log' = Append(steps_log, "transform")
    /\ app_pc' = "in_transform"
    /\ pc' = "load"
    /\ UNCHANGED <<csv_exists, csv_columns, csv_rows, csv_chunk, xlsx_writable,
                   df, df_pivot, printed, xlsx, err>>
    /\ UNCHANGED <<os_environ, config, api_uploader, main_steps, step_i, app_err>>
    /\ UNCHANGED <<uploadVars, instanceVars, clientVars, authVars>>

\* mutant of TransformReturn: the loop goes on after a failed transformation
TransformReturn_GoesOn ==
    /\ app_pc = "in_transform"
    /\ Finished
    /\ step_i' = step_i + 1
    /\ app_pc' = "loop"
    /\ UNCHANGED <<os_environ, config, api_uploader, main_steps, steps_log,
                   app_err>>
    /\ UNCHANGED <<transformVars, uploadVars, instanceVars, clientVars, authVars>>

\* transform_csv_to_xlsx returns, or its exception leaves the for loop
TransformReturn ==
    /\ app_pc = "in_transform"
    /\ Finished
    /\ IF pc = "done"
       THEN /\ step_i' = step_i + 1
            /\ app_pc' = "loop"
            /\ app_err' = app_err
       ELSE /\ step_i' = step_i
            /\ app_pc' = "raised"
            /\ app_err' = err
    /\ UNCHANGED <<os_environ, config, api_uploader, main_steps, steps_log>>
    /\ UNCHANGED <<transformVars, uploadVars, instanceVars, clientVars, authVars>>

UploadFailedText == "Erro no upload para API: "

UploadDoneText == "Arquivo enviado para API: "

\* step 3 of main_steps, _upload_to_api: the file is looked for and
\* upload_file is called; another process may have removed the file
UploadToApi ==
    /\ CurrentStep = "upload"
    /\ steps_log' = Append(steps_log, "upload")
    /\ \E present \in BOOLEAN :
          IF xlsx.exists /\ present
          THEN /\ up_pc' = "enter"
               /\ up_call' = "upload_file"
               /\ upload_path' = XlsxPath
               /\ \E n \in XlsxSizes :
                     upload_file_on_disk' =
                        [exists |-> TRUE, size |-> n, readable |-> TRUE]
               /\ session' = "none"
               /\ requests_sent' = 0
               /\ up_result' = Pending
               /\ app_pc' = "in_upload"
               /\ UNCHANGED <<step_i, xlsx, printed>>
          ELSE /\ xlsx' = NoFile
               /\ printed' = Append(printed,
                     [text |-> UploadFailedText,
                      value |-> [type |-> "FileNotFoundError"]])
               /\ step_i' = step_i + 1
               /\ UNCHANGED <<app_pc, clientVars>>
    /\ UNCHANGED <<csv_exists, csv_columns, csv_rows, csv_chunk, xlsx_writable,
                   pc, df, df_pivot, err>>
    /\ UNCHANGED <<os_environ, config, api_uploader, main_steps, app_err>>
    /\ UNCHANGED <<uploadVars, instanceVars, authVars>>

\* mutant of UploadReturn: an exception of upload_file leaves the for loop
UploadReturn_Reraises ==
    /\ app_pc = "in_upload"
    /\ UploaderDone
    /\ IF up_pc = "returned"
       THEN /\ printed' = Append(printed,
                  [text |-> UploadDoneText, value |-> up_result.value])
            /\ step_i' = step_i + 1
            /\ app_pc' = "loop"
            /\ app_err' = app_err
       ELSE /\ printed' = printed
            /\ step_i' = step_i
            /\ app_pc' = "raised"
            /\ app_err' = up_result.exc
    /\ UNCHANGED <<csv_exists, csv_columns, csv_rows, csv_chunk, xlsx_writable,
                   pc, df, df_pivot, xlsx, err>>
    /\ UNCHANGED <<os_environ, config, api_uploader, main_steps, steps_log>>
    /\ UNCHANGED <<uploadVars, instanceVars, clientVars, authVars>>

\* _upload_to_api after upload_file: the result is reported, an exception is
\* caught and reported, and the method returns
UploadReturn ==
    /\ app_pc = "in_upload"
    /\ UploaderDone
    /\ printed' =
          IF up_pc = "returned"
          THEN Append(printed,
                  [text |-> UploadDoneText, value |-> up_result.value])
          ELSE Append(printed,
                  [text |-> UploadFailedText, value |-> up_result.exc])
    /\ step_i' = step_i + 1
    /\ app_pc' = "loop"
    /\ UNCHANGED <<csv_exists, csv_columns, csv_rows, csv_chunk, xlsx_writable,
                   pc, df, df_pivot, xlsx, err>>
    /\ UNCHANGED <<os_environ, config, api_uploader, main_steps, steps_log,
                   app_err>>
    /\ UNCHANGED <<uploadVars, instanceVars, clientVars, authVars>>

CompletedText == "Processamento concluído com sucesso!"

\* the for loop is over: run reports the success and returns
Complete ==
    /\ app_pc = "loop"
    /\ step_i > Len(main_steps)
    /\ printed' = Append(printed, [text |-> CompletedText, value |-> <<>>])
    /\ app_pc' = "completed"
    /\ UNCHANGED <<csv_exists, csv_columns, csv_rows, csv_chunk, xlsx_writable,
                   pc, df, df_pivot, xlsx, err>>
    /\ UNCHANGED <<os_environ, config, api_uploader, main_steps, step_i,
                   steps_log, app_err>>
    /\ UNCHANGED <<uploadVars, instanceVars, clientVars, authVars>>

\* main returns 0 after run, and 1 after an exception of TableauAPIApp() or
\* of run, which run re-raises
MainReturn ==
    /\ app_pc \in {"completed", "raised"}
    /\ app_pc' = IF app_pc = "completed" THEN "exit_0" ELSE "exit_1"
    /\ UNCHANGED <<os_environ, config, api_uploader, main_steps, step_i,
                   steps_log, app_err>>
    /\ UNCHANGED <<transformVars, uploadVars, instanceVars, clientVars, authVars>>

NextApp ==
    \/ Construct
    \/ ValidateConfig
    \/ EnsureOutputDirectory
    \/ AppAuthenticate
    \/ CreateExporter
    \/ ExportStep
    \/ TransformStep
    \/ LoadCsv
    \/ ValidateColumns
    \/ Pivot
    \/ Reorder
    \/ ProcessNumeric
    \/ SaveToXlsx
    \/ TransformReturn
    \/ UploadToApi
    \/ ClientEnter
    \/ ValidateUploadFile
    \/ OpenUploadFile
    \/ MakeUploadRequest
    \/ HandleUploadResponse
    \/ ClientExit
    \/ UploadReturn
    \/ Complete
    \/ MainReturn

SpecApp == InitApp /\ [][NextApp]_vars


(***************************************************************************)
(* Properties of main().                                                   *)
(***************************************************************************)
StepsInOrder ==
    <<"validate_config", "ensure_output_directory", "authenticate",
      "create_exporter", "export", "transform", "upload">>

Started(step) == step \in Range(steps_log)

IsPrefix(s, t) == Len(s) <= Len(t) /\ \A k \in 1..Len(s) : s[k] = t[k]

AppFailed == app_pc \in {"raised", "exit_1"}

AppCompleted == app_pc \in {"completed", "exit_0"}

\* the configuration is the one Config builds, or upload is off in it
UploadOff == ~HasApiSettings(config) \/ ~UploadConfigured(config)

\* C20: TableauAPIApp() on a configuration loaded by Config in which upload
\* is not enabled or not configured succeeds with api_uploader = None, and
\* run executes exactly export and transform; the upload step is in
\* main_steps if and only if upload is enabled and URL and token are set.
C20_Original ==
    app_pc # "construct" =>
        /\ UploadOff =>
              /\ app_err # ConfigAttributeError
              /\ api_uploader = "None"
              /\ main_steps # <<>> => main_steps = <<"export", "transform">>
        /\ main_steps # <<>> =>
              ("upload" \in Range(main_steps) <=> ~UploadOff)

\* C15: whatever the upload does (upload_file raises, or the XLSX file is
\* gone), _upload_to_api returns: once the upload step has started, run
\* never fails, and it ends reporting the successful completion.
C15_UploadNeverFails ==
    Started("upload") =>
        /\ app_pc \in {"in_upload", "loop", "completed", "exit_0"}
        /\ app_err = NoError
        /\ AppCompleted => printed[Len(printed)].text = CompletedText

\* upload_file raised after its request, the failure was reported, and main
\* returned 0
C15_Witness ==
    /\ app_pc = "exit_0"
    /\ Started("upload")
    /\ up_pc = "raised"
    /\ requests_sent = 1
    /\ \E k \in 1..Len(printed) : printed[k].text = UploadFailedText

\* C17: the steps of run start in the order validate config, ensure output
\* directory, authenticate, create exporter, export, transform, upload;
\* authentication starts only with all six required settings set, transform
\* only after an export, upload only when enabled and after a transformation
\* that succeeded; a failed step leaves run with its exception and no later
\* step starts; a run that completes has run all six steps, and the upload
\* exactly when it is configured.
C17_StepOrder ==
    /\ [] /\ IsPrefix(steps_log, StepsInOrder)
          /\ Started("authenticate") =>
                \A k \in 1..Len(required_configs) :
                    config[required_configs[k]] # ""
          /\ Started("transform") => csv_exists
          /\ Started("upload") => pc = "done" /\ ~UploadOff
          /\ AppFailed => app_err # NoError
          /\ (pc = "failed" /\ app_pc # "in_transform") =>
                AppFailed /\ app_err = err
          /\ AppCompleted =>
                /\ pc = "done"
                /\ Len(steps_log) >= 6
                /\ Started("upload") <=> ~UploadOff
    /\ [][AppFailed => steps_log' = steps_log]_vars

\* upload was configured, the transformation failed, and main returned 1
\* without starting the upload
C17_Witness ==
    /\ app_pc = "exit_1"
    /\ pc = "failed"
    /\ "upload" \in Range(main_steps)
    /\ steps_log = SubSeq(StepsInOrder, 1, 6)
    /\ app_err = err

====
